---- MODULE Spec2Model ----
(***************************************************************************)
(* Model of backend/main.py: the model-selection bootstrap that runs at    *)
(* import time, the bounded per-session history (manage_history) and the   *)
(* /chat request handler (chat_endpoint).                                  *)
(*                                                                         *)
(* Python str values are sequences of tokens (each token a TLA+ string     *)
(* standing for a run of characters), so that concatenation, substring     *)
(* tests, split and strip are computed rather than assumed.  Python values *)
(* of unknown type (what json.loads returns, Optional[str] fields) are     *)
(* records [k |-> type name, v |-> tokens].                                *)
(***************************************************************************)
EXTENDS Integers, Sequences, FiniteSets, Bags, TLC

VARIABLES
    env,                \* os.environ and what the provider's list_models does
    booted,             \* module-level code (lines 40-84) has run
    model,              \* global model (line 41 / 79)
    TARGET_MODEL_NAME,  \* global (line 42 / 78)
    conversations,      \* global dict session_id -> list of turns (line 37)
    pending,            \* bag of requests accepted, handler not started
    cur,                \* the chat_endpoint coroutine running on the event loop
    responses,          \* history variable: what each finished request got
    appended,           \* history variable: every turn ever passed to append
    issued,             \* values uuid.uuid4() has returned so far
    arrivals            \* number of requests received so far

vars == <<env, booted, model, TARGET_MODEL_NAME, conversations, pending, cur,
          responses, appended, issued, arrivals>>

(***************************************************************************)
(* Bounds of the model.                                                    *)
(***************************************************************************)
MaxModels == 3          \* length of the enumerated model list (SpecBoot)
MaxRequests == 2        \* requests per run, many input values (Spec)
MaxLongRequests == 12   \* requests per run, few input values (SpecLong)

(***************************************************************************)
(* Python values.                                                          *)
(***************************************************************************)
PyStr(s) == [k |-> "str", v |-> s]
PyNone == [k |-> "NoneType", v |-> <<>>]
PyList(s) == [k |-> "list", v |-> s]
PyDict(s) == [k |-> "dict", v |-> s]

\* Python truthiness of an Optional[str]: None and "" are falsy.
Truthy(x) == x.k = "str" /\ x.v # <<>>

\* a or b (lines 40, 150, 152).
PyOr(a, b) == IF Truthy(a) THEN a ELSE b

(***************************************************************************)
(* str operations.                                                         *)
(***************************************************************************)
WS == "\n"              \* a run of whitespace
FENCE == "<three backticks>"
JSONTAG == "json"

Last(s) == s[Len(s)]

\* sep occurs in s at position i.
OccursAt(s, sep, i) ==
    /\ i + Len(sep) - 1 <= Len(s)
    /\ SubSeq(s, i, i + Len(sep) - 1) = sep

\* sep in s.
Contains(s, sep) == \E i \in 1..(Len(s) + 1) : OccursAt(s, sep, i)

FirstIndex(s, sep) ==
    CHOOSE i \in 1..(Len(s) + 1) :
        /\ OccursAt(s, sep, i)
        /\ \A j \in 1..(i - 1) : ~OccursAt(s, sep, j)

\* s.split(sep), sep non-empty: the pieces between the occurrences of sep,
\* found left to right without overlap.
RECURSIVE Split(_, _)
Split(s, sep) ==
    IF ~Contains(s, sep) THEN <<s>>
    ELSE LET i == FirstIndex(s, sep)
         IN  <<SubSeq(s, 1, i - 1)>> \o Split(SubSeq(s, i + Len(sep), Len(s)), sep)

RECURSIVE LStrip(_)
LStrip(s) == IF s # <<>> /\ Head(s) = WS THEN LStrip(Tail(s)) ELSE s

RECURSIVE RStrip(_)
RStrip(s) == IF s # <<>> /\ Last(s) = WS THEN RStrip(SubSeq(s, 1, Len(s) - 1)) ELSE s

\* s.strip()
Strip(s) == RStrip(LStrip(s))

UpperTok(t) ==
    CASE t = "chat" -> "CHAT"
      [] t = "interview" -> "INTERVIEW"
      [] t = "Interview" -> "INTERVIEW"
      [] t = "user" -> "USER"
      [] t = "model" -> "MODEL"
      [] OTHER -> t

\* s.upper()
Upper(s) == [i \in 1..Len(s) |-> UpperTok(s[i])]

LowerTok(t) ==
    CASE t = "Gemini" -> "gemini"
      [] t = "Gemma" -> "gemma"
      [] OTHER -> t

\* s.lower()
Lower(s) == [i \in 1..Len(s) |-> LowerTok(s[i])]

(***************************************************************************)
(* Model-selection bootstrap (module level, lines 40-84).                  *)
(***************************************************************************)
Gemma27 == <<"models/", "gemma", "-3-27b", "-it">>
Gemma12 == <<"models/", "gemma", "-3-12b", "-it">>
Gemma4 == <<"models/", "gemma", "-3-4b", "-it">>
Flash20 == <<"models/", "gemini", "-2.0-flash">>
FlashLatest == <<"models/", "gemini", "-flash-latest">>

priority_models == <<Gemma27, Gemma12, Gemma4, Flash20, FlashLatest>>

DefaultModel == <<"models/", "gemini", "-1.5-flash">>

NoTarget == <<>>        \* target_model = None

\* The loops swapped: the first available model that is a priority model.
RECURSIVE PriorityPickByAvailability(_, _)
PriorityPickByAvailability(prio, available) ==
    IF available = <<>> THEN NoTarget
    ELSE IF \E i \in 1..Len(prio) : prio[i] = Head(available)
         THEN Head(available)
         ELSE PriorityPickByAvailability(prio, Tail(available))

\* for p in priority_models: if p in available_models: ... break (lines 62-65)
RECURSIVE PriorityPick(_, _)
PriorityPick(prio, available) ==
    IF prio = <<>> THEN NoTarget
    ELSE IF \E i \in 1..Len(available) : available[i] = Head(prio)
         THEN Head(prio)
         ELSE PriorityPick(Tail(prio), available)

\* for m in available_models: if 'gemma' in m and '-it' in m: ... break (69-72)
RECURSIVE GemmaPick(_)
GemmaPick(available) ==
    IF available = <<>> THEN NoTarget
    ELSE IF Contains(Head(available), <<"gemma">>) /\ Contains(Head(available), <<"-it">>)
         THEN Head(available)
         ELSE GemmaPick(Tail(available))

\* lines 61-75
SelectModel(available) ==
    LET t1 == PriorityPick(priority_models, available)
        t2 == IF t1 = NoTarget THEN GemmaPick(available) ELSE t1
    IN  IF t2 = NoTarget
        THEN (IF available # <<>> THEN available[1] ELSE DefaultModel)
        ELSE t2

NoModel == [set |-> FALSE, name |-> <<>>]
GenerativeModel(name) == [set |-> TRUE, name |-> name]

\* GOOGLE_API_KEY = os.getenv("GOOGLE_API_KEY") or os.getenv("GEMINI_API_KEY")
ApiKey(e) == PyOr(e.GOOGLE_API_KEY, e.GEMINI_API_KEY)

\* genai.configure / genai.list_models either raise or yield the model names.
ListingFails == [ok |-> FALSE, names |-> <<>>]
Listing(names) == [ok |-> TRUE, names |-> names]

BootModel(e) ==
    IF Truthy(ApiKey(e)) /\ e.list_models.ok
    THEN GenerativeModel(SelectModel(e.list_models.names))
    ELSE NoModel

BootTargetName(e) ==
    IF Truthy(ApiKey(e)) /\ e.list_models.ok
    THEN SelectModel(e.list_models.names)
    ELSE <<>>

Bootstrap ==
    /\ ~booted
    /\ booted' = TRUE
    /\ model' = BootModel(env)
    /\ TARGET_MODEL_NAME' = BootTargetName(env)
    /\ UNCHANGED <<env, conversations, pending, cur, responses, appended,
                   issued, arrivals>>

(***************************************************************************)
(* Session history (lines 37, 138-146).                                    *)
(***************************************************************************)
HistoryLimit == 20

\* Every entry tagged "user", whoever spoke.
TurnAlwaysUser(role, val) == [role |-> "user", parts |-> <<val>>]

Turn(role, val) == [role |-> role, parts |-> <<val>>]

\* conversations[session_id], [] for a key not in the dict.
HistoryOf(convs, sid) == IF sid \in DOMAIN convs THEN convs[sid] ELSE <<>>

\* Slicing mistake: keeps the first 20 entries instead of the last 20.
ManageHistoryKeepsOldest(convs, sid, new_message) ==
    LET h == Append(HistoryOf(convs, sid), new_message)
        kept == IF Len(h) > HistoryLimit THEN SubSeq(h, 1, HistoryLimit) ELSE h
    IN  [s \in DOMAIN convs \cup {sid} |-> IF s = sid THEN kept ELSE convs[s]]

\* The dict rebuilt with the one session in it.
ManageHistoryDropsOthers(convs, sid, new_message) ==
    LET h == Append(HistoryOf(convs, sid), new_message)
        kept == IF Len(h) > HistoryLimit
                THEN SubSeq(h, Len(h) - HistoryLimit + 1, Len(h))
                ELSE h
    IN  [s \in {sid} |-> kept]

\* manage_history(session_id, new_message): the dict afterwards.
ManageHistory(convs, sid, new_message) ==
    LET h == Append(HistoryOf(convs, sid), new_message)
        kept == IF Len(h) > HistoryLimit
                THEN SubSeq(h, Len(h) - HistoryLimit + 1, Len(h))
                ELSE h
    IN  [s \in DOMAIN convs \cup {sid} |-> IF s = sid THEN kept ELSE convs[s]]

\* History variable kept beside every conversations[...].append(...).
Record(log, sid, new_message) ==
    [s \in DOMAIN log \cup {sid} |->
        IF s = sid THEN Append(HistoryOf(log, sid), new_message) ELSE log[s]]

(***************************************************************************)
(* The provider's reply text and its parsing (lines 177-187).              *)
(***************************************************************************)
DocHi == "{\"ai_reply\":\"hi\",\"grammar_correction\":null}"
DocOk == "{\"ai_reply\":\"ok\",\"grammar_correction\":\"fix x\"}"
DocNoReply == "{\"grammar_correction\":\"fix x\"}"
DocNullReply == "{\"ai_reply\":null,\"grammar_correction\":null}"
DocListReply == "{\"ai_reply\":[\"hi\"],\"grammar_correction\":null}"
DocObjCorrection == "{\"ai_reply\":\"hi\",\"grammar_correction\":{\"score\":5}}"
DocArray == "[\"hi\"]"
\* One JSON object whose ai_reply string itself holds a code fence.
DocFenceInString ==
    <<"{\"ai_reply\":\"type ", FENCE, " first\",\"grammar_correction\":null}">>

Docs == {DocHi, DocOk, DocNoReply, DocNullReply, DocListReply, DocObjCorrection,
         DocArray}

Parsed(type, fields) == [ok |-> TRUE, type |-> type, fields |-> fields, err |-> <<>>]
JSONDecodeError(msg) == [ok |-> FALSE, type |-> "", fields |-> <<>>, err |-> <<msg>>]

DocValue(d) ==
    CASE d = DocHi ->
            Parsed("dict", [ai_reply |-> PyStr(<<"hi">>), grammar_correction |-> PyNone])
      [] d = DocOk ->
            Parsed("dict", [ai_reply |-> PyStr(<<"ok">>),
                            grammar_correction |-> PyStr(<<"fix x">>)])
      [] d = DocNoReply ->
            Parsed("dict", [grammar_correction |-> PyStr(<<"fix x">>)])
      [] d = DocNullReply ->
            Parsed("dict", [ai_reply |-> PyNone, grammar_correction |-> PyNone])
      [] d = DocListReply ->
            Parsed("dict", [ai_reply |-> PyList(<<"['hi']">>), grammar_correction |-> PyNone])
      [] d = DocObjCorrection ->
            Parsed("dict", [ai_reply |-> PyStr(<<"hi">>),
                            grammar_correction |-> PyDict(<<"{'score': 5}">>)])
      [] d = DocArray -> Parsed("list", <<>>)

\* json.loads(text): one JSON document, whitespace around it allowed.
JsonLoads(text) ==
    LET t == Strip(text)
    IN  IF t = <<>> THEN JSONDecodeError("Expecting value: line 1 column 1 (char 0)")
        ELSE IF t = DocFenceInString
             THEN Parsed("dict", [ai_reply |-> PyStr(<<"type ", FENCE, " first">>),
                                  grammar_correction |-> PyNone])
        ELSE IF t[1] \in Docs
             THEN (IF Len(t) = 1 THEN DocValue(t[1]) ELSE JSONDecodeError("Extra data"))
        ELSE IF t[1] = DocFenceInString[1]
             THEN JSONDecodeError("Unterminated string starting at")
        ELSE JSONDecodeError("Expecting value: line 1 column 1 (char 0)")

\* lines 177-183: text after .strip() and after the fence handling.
ExtractJson(response_text) ==
    LET text == Strip(response_text)
    IN  IF Contains(text, <<FENCE, JSONTAG>>)
        THEN Strip(Head(Split(Last(Split(text, <<FENCE, JSONTAG>>)), <<FENCE>>)))
        ELSE IF Contains(text, <<FENCE>>)
             THEN Strip(Head(Split(Last(Split(text, <<FENCE>>)), <<FENCE>>)))
             ELSE text

DefaultReply == PyStr(<<"I'm sorry, I didn't catch that.">>)

\* dict.get(key, default)
DictGet(fields, key, default) == IF key \in DOMAIN fields THEN fields[key] ELSE default

ErrorPrefix == "I'm having trouble connecting to my brain right now. Error details: "

\* An except clause that does not put str(e) into the reply.
FailedHidesDetail(e) ==
    [branch |-> "error", ai_reply |-> PyStr(<<ErrorPrefix>>),
     grammar_correction |-> PyNone, error |-> e]

\* The locals after the except clause (lines 189-192); e is str(e).
Failed(e) ==
    [branch |-> "error", ai_reply |-> PyStr(<<ErrorPrefix>> \o e),
     grammar_correction |-> PyNone, error |-> e]

\* The locals after lines 177-187, or after the except clause when
\* json.loads raises or data has no .get.
ParseReply(response_text) ==
    LET data == JsonLoads(ExtractJson(response_text))
    IN  IF ~data.ok THEN Failed(data.err)
        ELSE IF data.type # "dict"
             THEN Failed(<<"'", data.type, "' object has no attribute 'get'">>)
        ELSE [branch |-> "success",
              ai_reply |-> DictGet(data.fields, "ai_reply", DefaultReply),
              grammar_correction |-> DictGet(data.fields, "grammar_correction", PyNone),
              error |-> <<>>]

(***************************************************************************)
(* Mock mode (lines 193-196).                                              *)
(***************************************************************************)
MockFeedback == PyStr(<<"Mock feedback: Good effort!">>)

\* A reply that forgets .upper() on the mode.
MockReplyNoUpper(mode, user_text) ==
    PyStr(<<"[">> \o mode \o <<" MODE] I heard you say: '">> \o user_text
          \o <<"'. (MockAI Mode)">>)

MockReply(mode, user_text) ==
    PyStr(<<"[">> \o Upper(mode) \o <<" MODE] I heard you say: '">> \o user_text
          \o <<"'. (MockAI Mode)">>)

MockCorrection(mode) == IF mode = <<"interview">> THEN MockFeedback ELSE PyNone

(***************************************************************************)
(* Prompt assembly (lines 163-171).                                        *)
(***************************************************************************)
\* f"{value}" of a history entry's text.
Format(val) == IF val.k = "NoneType" THEN <<"None">> ELSE val.v

PromptLine(msg) == Upper(<<msg.role>>) \o <<": ">> \o Format(msg.parts[1])

\* "\n".join(lines)
RECURSIVE Join(_)
Join(lines) ==
    IF lines = <<>> THEN <<>>
    ELSE IF Len(lines) = 1 THEN lines[1]
    ELSE lines[1] \o <<"\n">> \o Join(Tail(lines))

ContextStr(history) == Join([i \in 1..Len(history) |-> PromptLine(history[i])])

SystemPrompt(mode) == IF mode = <<"interview">> THEN "INTERVIEW_PROMPT" ELSE "CHAT_PROMPT"

FullPrompt(mode, history) ==
    <<SystemPrompt(mode), "\n\nConversation History:\n">> \o ContextStr(history)
        \o <<"\n\nRespond ONLY in valid JSON format.">>

GenConfig(target) ==
    IF Contains(Lower(target), <<"gemini">>) THEN {"response_mime_type"} ELSE {}

(***************************************************************************)
(* Requests and the running handler.                                       *)
(***************************************************************************)
\* A ChatRequest that passed validation (lines 24-27).
ChatRequest(user_message, mode, session_id) ==
    [user_message |-> user_message, mode |-> mode, session_id |-> session_id]

NoReq == ChatRequest(<<>>, PyNone, PyNone)

\* No chat_endpoint coroutine is running; the locals of lines 157-158.
Idle ==
    [pc |-> "idle", req |-> NoReq, session_id |-> <<>>, user_text |-> <<>>,
     mode |-> <<>>, branch |-> "none", ai_reply |-> PyStr(<<>>),
     grammar_correction |-> PyNone, error |-> <<>>, full_prompt |-> <<>>,
     gen_config |-> {}, response_text |-> <<>>, user_at |-> 0]

\* A handler that could be entered while another one is between its steps.
LoopAlwaysFree == TRUE

\* chat_endpoint is a coroutine without any await (lines 149-205; the provider
\* call on line 173 is the blocking generate_content), served by one event
\* loop (line 219): a handler starts only when no other handler is running.
LoopIdle == cur.pc = "idle"

UuidNames == <<"uuid-1", "uuid-2", "uuid-3", "uuid-4">>

\* What str(uuid.uuid4()) can return: a value it has not returned before
\* (one value per request of a run is enough).
Uuid4Values == {<<UuidNames[i]>> : i \in 1..MaxRequests} \ issued

\* The handler ignores the caller's id.
SessionIdAlwaysFresh(r, fresh) == fresh

\* session_id = request.session_id or str(uuid.uuid4())   (line 150)
SessionId(r, fresh) == PyOr(r.session_id, PyStr(fresh)).v

\* uuid4 is called only when request.session_id is falsy.
UuidDraws(r) == IF Truthy(r.session_id) THEN {<<>>} ELSE Uuid4Values

\* The server accepts a request; its handler has not started.
Arrive(user_message, mode, session_id, cap) ==
    /\ booted
    /\ arrivals < cap
    /\ arrivals' = arrivals + 1
    /\ pending' = pending (+) SetToBag({ChatRequest(user_message, mode, session_id)})
    /\ UNCHANGED <<env, booted, model, TARGET_MODEL_NAME, conversations, cur,
                   responses, appended, issued>>

\* lines 150-158
Start(r) ==
    /\ LoopIdle
    /\ BagIn(r, pending)
    /\ \E fresh \in UuidDraws(r) :
          LET session_id == SessionId(r, fresh)
              user_turn == Turn("user", PyStr(r.user_message))
          IN  /\ conversations' = ManageHistory(conversations, session_id, user_turn)
              /\ appended' = Record(appended, session_id, user_turn)
              /\ issued' = IF Truthy(r.session_id) THEN issued ELSE issued \cup {fresh}
              /\ cur' = [Idle EXCEPT !.pc = "entered", !.req = r,
                                     !.session_id = session_id,
                                     !.user_text = r.user_message,
                                     !.mode = PyOr(r.mode, PyStr(<<"chat">>)).v,
                                     !.user_at = Len(HistoryOf(appended, session_id)) + 1]
    /\ pending' = pending (-) SetToBag({r})
    /\ UNCHANGED <<env, booted, model, TARGET_MODEL_NAME, responses, arrivals>>

\* lines 160-173, up to the call of generate_content
SendPrompt ==
    /\ cur.pc = "entered"
    /\ model.set
    /\ cur' = [cur EXCEPT !.pc = "generating",
                          !.full_prompt = FullPrompt(cur.mode, conversations[cur.session_id]),
                          !.gen_config = GenConfig(TARGET_MODEL_NAME)]
    /\ UNCHANGED <<env, booted, model, TARGET_MODEL_NAME, conversations, pending,
                   responses, appended, issued, arrivals>>

\* lines 193-196
Mock ==
    /\ cur.pc = "entered"
    /\ ~model.set
    /\ cur' = [cur EXCEPT !.pc = "replying", !.branch = "mock",
                          !.ai_reply = MockReply(cur.mode, cur.user_text),
                          !.grammar_correction = MockCorrection(cur.mode)]
    /\ UNCHANGED <<env, booted, model, TARGET_MODEL_NAME, conversations, pending,
                   responses, appended, issued, arrivals>>

Finish(outcome) ==
    [cur EXCEPT !.pc = "replying", !.branch = outcome.branch,
                !.ai_reply = outcome.ai_reply,
                !.grammar_correction = outcome.grammar_correction,
                !.error = outcome.error]

\* generate_content returns; lines 173-187, or 189-192 when parsing raises
ProviderReturns(response_text) ==
    /\ cur.pc = "generating"
    /\ cur' = [Finish(ParseReply(response_text)) EXCEPT !.response_text = response_text]
    /\ UNCHANGED <<env, booted, model, TARGET_MODEL_NAME, conversations, pending,
                   responses, appended, issued, arrivals>>

\* generate_content (or response.text) raises; lines 189-192
ProviderRaises(e) ==
    /\ cur.pc = "generating"
    /\ cur' = Finish(Failed(e))
    /\ UNCHANGED <<env, booted, model, TARGET_MODEL_NAME, conversations, pending,
                   responses, appended, issued, arrivals>>

\* ChatResponse(...) validates its fields (lines 29-32): ai_reply: str,
\* grammar_correction: Optional[str], session_id: str.
Validates(ai_reply, grammar_correction) ==
    /\ ai_reply.k = "str"
    /\ grammar_correction.k \in {"str", "NoneType"}

\* lines 198-205.  A ValidationError raised by ChatResponse is not caught by
\* the handler: the framework answers 500.
Respond ==
    /\ cur.pc = "replying"
    /\ LET model_turn == Turn("model", cur.ai_reply)
       IN  /\ conversations' = ManageHistory(conversations, cur.session_id, model_turn)
           /\ appended' = Record(appended, cur.session_id, model_turn)
           /\ responses' = Append(responses,
                 [req |-> cur.req,
                  status |-> IF Validates(cur.ai_reply, cur.grammar_correction)
                             THEN "200" ELSE "500",
                  ai_reply |-> cur.ai_reply,
                  grammar_correction |-> cur.grammar_correction,
                  session_id |-> cur.session_id,
                  branch |-> cur.branch,
                  mode |-> cur.mode,
                  error |-> cur.error,
                  response_text |-> cur.response_text,
                  user_at |-> cur.user_at,
                  model_at |-> Len(appended[cur.session_id]) + 1])
    /\ cur' = Idle
    /\ UNCHANGED <<env, booted, model, TARGET_MODEL_NAME, pending, issued, arrivals>>

(***************************************************************************)
(* Inputs.                                                                 *)
(***************************************************************************)
ModelNames ==
    {Gemma27, Gemma12, Gemma4, Flash20, FlashLatest, DefaultModel,
     <<"models/", "gemma", "-2-9b", "-it">>,
     <<"models/", "gemma", "-2-9b">>,
     <<"models/", "aqa", "-it">>,
     <<"models/", "embedding-001">>}

ModelLists == UNION {[1..n -> ModelNames] : n \in 0..MaxModels}

Keys == {PyNone, PyStr(<<>>), PyStr(<<"key">>)}

Environment(k1, k2, listing) ==
    [GOOGLE_API_KEY |-> k1, GEMINI_API_KEY |-> k2, list_models |-> listing]

BootEnvs ==
    {Environment(k1, k2, l) :
        k1 \in Keys, k2 \in Keys, l \in {ListingFails} \cup {Listing(n) : n \in ModelLists}}

Envs ==
    {Environment(PyNone, PyNone, ListingFails),
     Environment(PyStr(<<"key">>), PyNone, ListingFails),
     Environment(PyNone, PyStr(<<"key">>), Listing(<<<<"models/", "gemma", "-2-9b", "-it">>>>))}

LongEnvs ==
    {Environment(PyStr(<<>>), PyNone, Listing(<<Gemma27>>)),
     Environment(PyStr(<<"key">>), PyNone, Listing(<<>>))}

Messages == {<<"hello">>, <<>>}

Modes == {PyNone, PyStr(<<>>), PyStr(<<"chat">>), PyStr(<<"interview">>),
          PyStr(<<"Interview">>)}

\* Ids a caller can send: none, the empty string, ids of its own, and ids a
\* previous response gave it.
SessionIds ==
    {PyNone, PyStr(<<>>), PyStr(<<"s1">>), PyStr(<<"s2">>)} \cup {PyStr(u) : u \in issued}

ProviderTexts ==
    {<<DocHi>>, <<DocOk>>, <<WS, DocOk, WS>>,
     <<FENCE, JSONTAG, WS, DocHi, WS, FENCE>>,
     <<"Sure!", WS, FENCE, JSONTAG, WS, DocOk, WS, FENCE, WS, "Anything else?">>,
     <<FENCE, WS, DocHi, WS, FENCE>>,
     DocFenceInString,
     <<"Hello there!">>, <<>>,
     <<DocArray>>, <<DocNoReply>>, <<DocNullReply>>, <<DocListReply>>,
     <<DocObjCorrection>>}

ProviderErrors == {<<"429 Resource has been exhausted">>, <<>>}

\* The requests of Spec: the plain request (hello, chat, s1) and every
\* request that differs from it in one field.
IsPlain(user_message, mode, session_id) ==
    /\ user_message = <<"hello">>
    /\ mode = PyStr(<<"chat">>)
    /\ session_id = PyStr(<<"s1">>)

RequestInputs ==
    {i \in Messages \X Modes \X SessionIds :
        \/ i[1] = <<"hello">> /\ i[2] = PyStr(<<"chat">>)
        \/ i[1] = <<"hello">> /\ i[3] = PyStr(<<"s1">>)
        \/ i[2] = PyStr(<<"chat">>) /\ i[3] = PyStr(<<"s1">>)}

\* The provider outcomes of Spec: every outcome for the plain request, one
\* reply for the others.
TextsFor(r) ==
    IF IsPlain(r.user_message, r.mode, r.session_id) THEN ProviderTexts ELSE {<<DocOk>>}

ErrorsFor(r) ==
    IF IsPlain(r.user_message, r.mode, r.session_id) THEN ProviderErrors ELSE {}

Digits == <<"0", "1", "2", "3", "4", "5", "6", "7", "8", "9">>

RECURSIVE Numeral(_)
Numeral(n) ==
    IF n < 10 THEN <<Digits[n + 1]>>
    ELSE Numeral(n \div 10) \o <<Digits[(n % 10) + 1]>>

(***************************************************************************)
(* Specifications.                                                         *)
(***************************************************************************)
InitWith(envs) ==
    /\ env \in envs
    /\ booted = FALSE
    /\ model = NoModel
    /\ TARGET_MODEL_NAME = <<>>
    /\ conversations = <<>>
    /\ pending = EmptyBag
    /\ cur = Idle
    /\ responses = <<>>
    /\ appended = <<>>
    /\ issued = {}
    /\ arrivals = 0

\* Many input values, few requests.
Init == InitWith(Envs)

Next ==
    \/ Bootstrap
    \/ \E i \in RequestInputs : Arrive(i[1], i[2], i[3], MaxRequests)
    \/ \E r \in BagToSet(pending) : Start(r)
    \/ SendPrompt
    \/ Mock
    \/ \E t \in TextsFor(cur.req) : ProviderReturns(t)
    \/ \E e \in ErrorsFor(cur.req) : ProviderRaises(e)
    \/ Respond

Spec == Init /\ [][Next]_vars

\* The bootstrap alone, over every environment.
InitBoot == InitWith(BootEnvs)

NextBoot == Bootstrap

SpecBoot == InitBoot /\ [][NextBoot]_vars

\* Few input values, enough requests to overflow a session's history: a
\* caller that numbers its messages and sends the next one after the answer
\* to the previous one (the requests are handled one after another).
InitLong == InitWith(LongEnvs)

\* Two sessions in mock mode, where the reply is a function of the request;
\* one session when a provider is configured, which answers or fails.
LongSessionIds ==
    IF model.set THEN {PyStr(<<"s1">>)} ELSE {PyStr(<<"s1">>), PyStr(<<"s2">>)}

NextLong ==
    \/ Bootstrap
    \/ \E s \in LongSessionIds :
          /\ pending = EmptyBag
          /\ cur.pc = "idle"
          /\ Arrive(<<"message ">> \o Numeral(arrivals + 1), PyStr(<<"chat">>), s,
                 MaxLongRequests)
    \/ \E r \in BagToSet(pending) : Start(r)
    \/ SendPrompt
    \/ Mock
    \/ \E t \in {<<DocHi>>} : ProviderReturns(t)
    \/ \E e \in {<<"503 unavailable">>} : ProviderRaises(e)
    \/ Respond

SpecLong == InitLong /\ [][NextLong]_vars

(***************************************************************************)
(* Properties.                                                             *)
(***************************************************************************)
Min(S) == CHOOSE x \in S : \A y \in S : x <= y

Range(f) == {f[i] : i \in DOMAIN f}

IsUserTurn(t, text) == t = [role |-> "user", parts |-> <<PyStr(text)>>]

IsModelTurn(t, reply) == t = [role |-> "model", parts |-> <<reply>>]

\* C1 (SpecLong): after every manage_history call, the stored history of each
\* session is the last min(n, 20) of the n turns appended to it so far, in the
\* order they were appended; its length never exceeds 20.
C1_HistoryIsLastTwenty ==
    /\ DOMAIN conversations = DOMAIN appended
    /\ \A s \in DOMAIN conversations :
          LET n == Len(appended[s])
              k == IF n < 20 THEN n ELSE 20
          IN  /\ Len(conversations[s]) = k
              /\ Len(conversations[s]) <= 20
              /\ \A i \in 1..k : conversations[s][i] = appended[s][n - k + i]

\* A session that got more than 20 turns: the oldest ones are gone.
C1_Witness ==
    \E s \in DOMAIN conversations :
        /\ Len(appended[s]) > 21
        /\ Len(conversations[s]) = 20
        /\ conversations[s][1] # appended[s][1]

\* C7 (SpecBoot): when a credential is set and the enumeration succeeds, the
\* handle is set, and the selected model is the first priority entry that
\* occurs in the enumerated list, else the first enumerated name containing
\* both 'gemma' and '-it', else the first enumerated name, else the default
\* 'models/gemini-1.5-flash' (empty list).
C7_ModelSelection ==
    (booted /\ Truthy(ApiKey(env)) /\ env.list_models.ok) =>
        LET available == env.list_models.names
            prioHits == {i \in 1..Len(priority_models) :
                            priority_models[i] \in Range(available)}
            gemmaHits == {i \in 1..Len(available) :
                            /\ Contains(available[i], <<"gemma">>)
                            /\ Contains(available[i], <<"-it">>)}
            expected == IF prioHits # {} THEN priority_models[Min(prioHits)]
                        ELSE IF gemmaHits # {} THEN available[Min(gemmaHits)]
                        ELSE IF available # <<>> THEN available[1]
                        ELSE <<"models/", "gemini", "-1.5-flash">>
        IN  /\ model.set
            /\ model.name = expected
            /\ TARGET_MODEL_NAME = expected

\* The list holds two priority models, the lower-priority one first, and the
\* higher-priority one was selected.
C7_Witness ==
    /\ booted
    /\ model.set
    /\ Len(env.list_models.names) = 3
    /\ env.list_models.names[1] = <<"models/", "embedding-001">>
    /\ env.list_models.names[2] = FlashLatest
    /\ env.list_models.names[3] = Gemma12
    /\ model.name = Gemma12

Alternates(h) == \A i \in 1..(Len(h) - 1) : h[i].role # h[i + 1].role

\* The shape of a history no request is working on.
Settled(h) ==
    /\ Len(h) % 2 = 0
    /\ Alternates(h)
    /\ h # <<>> => (h[1].role = "user" /\ h[Len(h)].role = "model")

\* C10 (SpecLong): between requests every history has even length, alternates
\* roles, starts with a user turn and ends with a model turn; while a request
\* is in flight its session's history alternates and ends with the request's
\* user turn, and the history serialized into the prompt starts with a model
\* turn exactly when the session held 20 entries before the request.
C10_RoleAlternation ==
    /\ \A s \in DOMAIN conversations :
          (cur.pc = "idle" \/ s # cur.session_id) => Settled(conversations[s])
    /\ cur.pc # "idle" =>
          LET h == conversations[cur.session_id]
          IN  /\ Alternates(h)
              /\ IsUserTurn(h[Len(h)], cur.req.user_message)
    /\ cur.pc = "generating" =>
          /\ cur.user_at > 20 => cur.full_prompt[3] = "MODEL"
          /\ cur.user_at <= 20 => cur.full_prompt[3] = "USER"

\* A prompt built for a session that already held 20 entries.
C10_Witness ==
    /\ cur.pc = "generating"
    /\ cur.user_at > 20
    /\ Len(conversations[cur.session_id]) = 20
    /\ cur.full_prompt[3] = "MODEL"

Running == cur.pc # "idle"

\* C2 (Spec): every request that passed validation ends, whatever the provider
\* did, in a 200 response carrying a string ai_reply.
C2_AlwaysSuccess ==
    \A i \in 1..Len(responses) :
        /\ responses[i].status = "200"
        /\ responses[i].ai_reply.k = "str"

\* C3 (Spec): when the handle is set and the provider call or the parsing of
\* its text raised, the request is answered 200 with a non-empty ai_reply
\* that contains the error description and with grammar_correction null; the
\* model turn recorded for the request holds exactly that ai_reply, and right
\* after the request the session's history ends with the request's user turn
\* followed by that model turn.
C3_ErrorReply ==
    /\ \A i \in 1..Len(responses) :
          LET r == responses[i]
          IN  r.branch = "error" =>
                /\ model.set
                /\ r.status = "200"
                /\ r.ai_reply.k = "str"
                /\ r.ai_reply.v # <<>>
                /\ Contains(r.ai_reply.v, r.error)
                /\ r.grammar_correction = PyNone
                /\ IsModelTurn(appended[r.session_id][r.model_at], r.ai_reply)
    /\ (~Running /\ responses # <<>> /\ Last(responses).branch = "error") =>
          LET r == Last(responses)
              h == conversations[r.session_id]
          IN  /\ IsModelTurn(h[Len(h)], r.ai_reply)
              /\ IsUserTurn(h[Len(h) - 1], r.req.user_message)

\* One request failed in the provider call, another in the parsing.
C3_Witness ==
    /\ ~Running
    /\ \E i, j \in 1..Len(responses) :
          /\ responses[i].branch = "error"
          /\ responses[i].error = <<"429 Resource has been exhausted">>
          /\ responses[j].branch = "error"
          /\ responses[j].response_text = <<"Hello there!">>

\* With the handle unset no request reaches the provider, and every reply
\* contains the mode name uppercased and the user_message, with
\* grammar_correction null for mode "chat" and non-null for mode "interview".
C4_MockAnswers ==
    (booted /\ ~model.set) =>
        /\ cur.pc # "generating"
        /\ cur.full_prompt = <<>>
        /\ \A i \in 1..Len(responses) :
              LET r == responses[i]
              IN  /\ r.branch = "mock"
                  /\ r.status = "200"
                  /\ r.ai_reply.k = "str"
                  /\ Contains(r.ai_reply.v, Upper(r.mode))
                  /\ Truthy(r.req.mode) => r.mode = r.req.mode.v
                  /\ Contains(r.ai_reply.v, r.req.user_message)
                  /\ r.mode = <<"chat">> =>
                        /\ Contains(r.ai_reply.v, <<"CHAT">>)
                        /\ r.grammar_correction = PyNone
                  /\ r.mode = <<"interview">> =>
                        /\ Contains(r.ai_reply.v, <<"INTERVIEW">>)
                        /\ r.grammar_correction # PyNone

\* C4 (Spec): with the handle unset, every request is answered without
\* calling the provider, by a reply that contains the mode name uppercased and
\* the user_message, with grammar_correction null for mode "chat" and non-null
\* for mode "interview"; and the handle stays unset for the rest of the run.
C4_MockMode == []C4_MockAnswers /\ [][(booted /\ ~model.set) => ~model'.set]_vars

\* A mock answer in interview mode, and a later mock answer in chat mode.
C4_Witness ==
    /\ booted
    /\ ~model.set
    /\ Len(responses) = 2
    /\ responses[1].mode = <<"interview">>
    /\ responses[1].grammar_correction # PyNone
    /\ responses[2].req.mode = PyStr(<<"chat">>)
    /\ responses[2].req.user_message = <<"hello">>

\* The texts C5 is about: a two-field object, bare or in one fenced block.
Wrappings(d) ==
    {<<d>>, <<FENCE, JSONTAG, WS, d, WS, FENCE>>, <<FENCE, WS, d, WS, FENCE>>}

\* C5 (Spec): for a provider text that is a valid two-field object, bare or
\* wrapped in one fenced block with or without the json tag, the extraction
\* yields the object's text and the response carries the object's ai_reply
\* and grammar_correction.
C5_FencedOrBare ==
    \A i \in 1..Len(responses) : \A d \in {DocHi, DocOk} :
        LET r == responses[i]
        IN  (r.branch # "mock" /\ r.response_text \in Wrappings(d)) =>
                /\ ExtractJson(r.response_text) = <<d>>
                /\ r.status = "200"
                /\ r.ai_reply = DocValue(d).fields.ai_reply
                /\ r.grammar_correction = DocValue(d).fields.grammar_correction

\* C6, as claimed (Spec): a request that supplies a session_id is answered
\* with that same value.
C6_SuppliedIdKept ==
    \A i \in 1..Len(responses) :
        responses[i].req.session_id.k = "str" =>
            responses[i].session_id = responses[i].req.session_id.v

\* C6, amended (Spec): a request that supplies a non-empty session_id is
\* handled under that value; a request whose session_id is absent or empty is
\* handled under a generated id that no session had before, and two such
\* requests get distinct ids; in both cases the request's two turns are stored
\* under the id, which is the one a returned response carries.
C6_SessionIdResolution ==
    \A i \in 1..Len(responses) :
        LET r == responses[i]
        IN  /\ Truthy(r.req.session_id) => r.session_id = r.req.session_id.v
            /\ ~Truthy(r.req.session_id) =>
                  /\ r.user_at = 1
                  /\ r.session_id \in issued
                  /\ \A j \in 1..Len(responses) :
                        (j # i /\ ~Truthy(responses[j].req.session_id)) =>
                            responses[j].session_id # r.session_id
            /\ r.session_id \in DOMAIN conversations
            /\ IsUserTurn(appended[r.session_id][r.user_at], r.req.user_message)
            /\ IsModelTurn(appended[r.session_id][r.model_at], r.ai_reply)
            /\ IsUserTurn(conversations[r.session_id][r.user_at], r.req.user_message)
            /\ IsModelTurn(conversations[r.session_id][r.model_at], r.ai_reply)

\* One request without a session_id and one with an empty one were answered.
C6_Witness ==
    /\ Len(responses) = 2
    /\ responses[1].req.session_id = PyNone
    /\ responses[2].req.session_id = PyStr(<<>>)
    /\ responses[1].session_id # responses[2].session_id
    /\ responses[1].status = "200"

\* The session a waiting request will be handled under, when it names one.
NamesSession(r, sid) == Truthy(r.session_id) /\ r.session_id.v = sid

HasAdjacentUserTurns(h) ==
    \E i \in 1..(Len(h) - 1) : h[i].role = "user" /\ h[i + 1].role = "user"

\* C8, as claimed (Spec): the handler is not atomic: while a request is
\* between its user-turn append and its model-turn append, a waiting request
\* for the same session can append its user turn.
C8_HandlersInterleave ==
    \A r \in BagToSet(pending) :
        (Running /\ NamesSession(r, cur.session_id)) => ENABLED Start(r)

\* C8, amended (Spec): requests for the same session do not interleave: while
\* a handler is between its two appends no waiting request can start, and no
\* stored history ever holds two adjacent user turns.
C8_HandlersSerialized ==
    /\ \A r \in BagToSet(pending) : Running => ~ENABLED Start(r)
    /\ \A s \in DOMAIN conversations :
          /\ ~HasAdjacentUserTurns(conversations[s])
          /\ ~HasAdjacentUserTurns(appended[s])

\* Two requests for one session in flight at once: one waits for the
\* provider, the other for the event loop.
C8_Witness ==
    /\ cur.pc = "generating"
    /\ \E r \in BagToSet(pending) : NamesSession(r, cur.session_id)
    /\ IsUserTurn(Last(conversations[cur.session_id]), cur.user_text)

\* Each finished request put into its session one user turn with its
\* user_message directly followed by one model turn with its ai_reply, and
\* every appended turn belongs to exactly one request.
C9_OneUserOneModel ==
    /\ \A i \in 1..Len(responses) :
          LET r == responses[i]
          IN  /\ r.branch \in {"success", "error", "mock"}
              /\ r.model_at = r.user_at + 1
              /\ IsUserTurn(appended[r.session_id][r.user_at], r.req.user_message)
              /\ IsModelTurn(appended[r.session_id][r.model_at], r.ai_reply)
    /\ \A s \in DOMAIN appended : \A j \in 1..Len(appended[s]) :
          LET owners == {i \in 1..Len(responses) :
                            /\ responses[i].session_id = s
                            /\ j \in {responses[i].user_at, responses[i].model_at}}
              mine == Running /\ cur.session_id = s /\ cur.user_at = j
          IN  Cardinality(owners) + (IF mine THEN 1 ELSE 0) = 1
    /\ (~Running /\ responses # <<>>) =>
          LET r == Last(responses)
              h == conversations[r.session_id]
          IN  /\ IsModelTurn(h[Len(h)], r.ai_reply)
              /\ IsUserTurn(h[Len(h) - 1], r.req.user_message)

\* A step changes the history of the running request's session only, and
\* removes no session.
C9_StepFrame ==
    /\ DOMAIN conversations \subseteq DOMAIN conversations'
    /\ \A s \in DOMAIN conversations :
          (s # cur.session_id /\ s # cur'.session_id) =>
              conversations'[s] = conversations[s]
    /\ (cur.pc = cur'.pc \/ cur'.pc \in {"generating", "replying"}) =>
          conversations' = conversations

\* C9 (SpecLong): every finished request appended to its session exactly one
\* user turn (its user_message) followed by exactly one model turn (its
\* ai_reply), on the success, error and mock branches alike; no step changes
\* the history of another session, and no session key is ever removed.
C9_FrameEffect == []C9_OneUserOneModel /\ [][C9_StepFrame]_vars

\* Requests were answered on two sessions, last on the one that already
\* holds more turns than the limit; the other one is as its request left it.
C9_Witness ==
    /\ ~Running
    /\ \E i, j \in 1..Len(responses) :
          /\ j < i
          /\ i = Len(responses)
          /\ responses[i].session_id # responses[j].session_id
          /\ Len(appended[responses[i].session_id]) > 20
          /\ Len(conversations[responses[j].session_id]) = 2

====
